---- MODULE Spec2Model ----
\* Model of the Mercado Livre pipeline: the Scrapy spider
\* (extract/spiders/mercadolivre.py) and the data processor
\* (transform/main.py).
\*
\* Two state machines share the operators that model the field code:
\*   Spec       the crawl of a site followed by main() of the processor,
\*              run after run (pagination, feed, table);
\*   FieldSpec  one callback applied to one page of product containers
\*              whose elements vary, followed by preprocess_data on the
\*              records it yielded (extraction and normalisation of fields).
EXTENDS Integers, Sequences, FiniteSets, TLC

\* ---------------------------------------------------------------- bounds

\* Longest chain of distinct pages a site serves.
MaxSite == 4
\* Most product containers on one page of a crawled site.
MaxItems == 2
\* Largest page budget tried besides the default.
MaxBudget == 3
\* Number of pipeline runs (crawl, then main) in one behaviour.
MaxRuns == 2
\* Most product containers on the page handed to one callback in FieldSpec.
MaxBatch == 2

\* ------------------------------------------------------------------ text

\* A text is a sequence of one-character strings.  Python's None (and a
\* selector that matches nothing) is the value None, which is no text: its
\* only element is not a single character.
None == <<"None">>

Digits == {"0", "1", "2", "3", "4", "5", "6", "7", "8", "9"}

DigitValue ==
    [c \in Digits |->
        CASE c = "0" -> 0 [] c = "1" -> 1 [] c = "2" -> 2 [] c = "3" -> 3
          [] c = "4" -> 4 [] c = "5" -> 5 [] c = "6" -> 6 [] c = "7" -> 7
          [] c = "8" -> 8 [] c = "9" -> 9]

DigitChar ==
    [n \in 0..9 |-> CHOOSE c \in Digits : DigitValue[c] = n]

RECURSIVE LStrip(_, _)
LStrip(s, chars) ==
    IF s # <<>> /\ Head(s) \in chars THEN LStrip(Tail(s), chars) ELSE s

RECURSIVE RStrip(_, _)
RStrip(s, chars) ==
    IF s # <<>> /\ s[Len(s)] \in chars
    THEN RStrip(SubSeq(s, 1, Len(s) - 1), chars)
    ELSE s

\* str.strip(chars): drops leading and trailing characters that are in chars.
Strip(s, chars) == RStrip(LStrip(s, chars), chars)

\* str.replace(a, b) for one-character a and b.
Replace(s, a, b) ==
    IF s = <<>> THEN <<>>
    ELSE [i \in 1..Len(s) |-> IF s[i] = a THEN b ELSE s[i]]

\* str(x) as Series.astype(str) applies it to an object column: a text is
\* itself, None becomes the text "None".
AsStr(x) == IF x = None THEN <<"N", "o", "n", "e">> ELSE x

\* --------------------------------------------------------------- numbers

\* A float is m / 10^e with no trailing zero in m when e > 0; NaN is the
\* missing float.  An Int64 is an integer or NA.
Float(m, e) == [kind |-> "float", m |-> m, e |-> e]
NaN == [kind |-> "NaN", m |-> 0, e |-> 0]
Int64(n) == [kind |-> "int", m |-> n, e |-> 0]
NA == [kind |-> "NA", m |-> 0, e |-> 0]

RECURSIVE Normalize(_, _)
Normalize(m, e) ==
    IF e > 0 /\ m % 10 = 0 THEN Normalize(m \div 10, e - 1) ELSE Float(m, e)

RECURSIVE DigitsValue(_)
DigitsValue(s) ==
    IF s = <<>> THEN 0
    ELSE 10 * DigitsValue(SubSeq(s, 1, Len(s) - 1)) + DigitValue[s[Len(s)]]

AllDigits(s) == \A i \in 1..Len(s) : s[i] \in Digits

\* pandas.to_numeric(..., errors="coerce") on one value of an object column:
\* None and the empty text give NaN; digits with at most one decimal point
\* (and at least one digit) give the number; any other text is coerced to NaN.
to_numeric(x) ==
    IF x = None \/ x = <<>> THEN NaN
    ELSE LET dots == {i \in 1..Len(x) : x[i] = "."}
         IN  IF dots = {}
             THEN IF AllDigits(x) THEN Float(DigitsValue(x), 0) ELSE NaN
             ELSE IF Cardinality(dots) > 1 THEN NaN
             ELSE LET d == CHOOSE i \in dots : TRUE
                      ip == SubSeq(x, 1, d - 1)
                      fp == SubSeq(x, d + 1, Len(x))
                  IN  IF AllDigits(ip) /\ AllDigits(fp) /\ Len(ip) + Len(fp) > 0
                      THEN Normalize(DigitsValue(ip \o fp), Len(fp))
                      ELSE NaN

\* ------------------------------------------------------------ extraction

Fields ==
    {"brand", "name", "old_price", "new_price", "review_rating_number",
     "review_amount"}

\* The two layout generations: "A" is read by parse, "B" by parse_next_pages.
Generations == {"A", "B"}

\* A product container is what each CSS selector of each callback finds in
\* it: the text of the first match, or None when nothing matches.  The
\* selector for a field of generation g is the pair <<g, field>>.
Selectors == Generations \X Fields

\* SelectorList.get(default): the first match, or the default.
Get(product, sel, default) ==
    IF product[sel] = None THEN default ELSE product[sel]

\* Python's `a or b` on a text or None: b when a is None or empty.
PyOr(a, b) == IF a = None \/ a = <<>> THEN b ELSE a

\* What evaluating an expression gives: a value, or an exception.
Value(v) == [raised |-> FALSE, value |-> v]
Raise == [raised |-> TRUE, value |-> None]

\* x.strip("()"): AttributeError when x is None.
StripParens(x) == IF x = None THEN Raise ELSE Value(Strip(x, {"(", ")"}))

\* A callback that reads the review count with a bare .get() and strips it.
review_amount_bare(product, sel) == StripParens(Get(product, sel, None))

\* (product.css(sel).get(default="0") or "0").strip("()")
review_amount(product, sel) ==
    StripParens(PyOr(Get(product, sel, <<"0">>), <<"0">>))

\* The dict one callback yields for one product container, or the exception
\* building it raises.
Item(g, product) ==
    LET ra == review_amount(product, <<g, "review_amount">>)
    IN  IF ra.raised THEN Raise
        ELSE Value(
            [brand |-> Get(product, <<g, "brand">>, None),
             name |-> Get(product, <<g, "name">>, None),
             old_price |-> Get(product, <<g, "old_price">>, None),
             new_price |-> Get(product, <<g, "new_price">>, None),
             review_rating_number |->
                 Get(product, <<g, "review_rating_number">>, None),
             review_amount |-> ra.value])

\* The generation of selectors each callback uses.
GenerationOf(callback) == IF callback = "parse" THEN "A" ELSE "B"

\* A loop that walks the containers from the last to the first.
ProductAtReversed(products, i) == products[Len(products) + 1 - i]

\* `for product in products`: the i-th iteration takes the i-th container.
ProductAt(products, i) == products[i]

\* --------------------------------------------------------- normalisation

SOURCE_URL == <<"u">>

\* Lines 52-53: astype(str), replace "," by ".", to_numeric(errors="coerce").
price_to_numeric(x) == to_numeric(Replace(AsStr(x), ",", "."))

\* Series.astype("Int64") of a float column: NaN becomes NA, a whole number
\* becomes that integer, and a number with a fraction makes the cast raise
\* TypeError (cannot safely cast non-equivalent float64 to int64).
astype_Int64(col) ==
    IF \E i \in 1..Len(col) : col[i].kind = "float" /\ col[i].e > 0
    THEN Raise
    ELSE Value([i \in 1..Len(col) |->
             IF col[i].kind = "NaN" THEN NA ELSE Int64(col[i].m)])

\* preprocess_data(df) at time now.  df is the frame load_data builds from
\* the feed: one row per record, one column per key, so a feed without
\* records gives a frame without columns, and df["new_price"] raises KeyError.
preprocess_data(df, now) ==
    IF df = <<>> THEN Raise
    ELSE LET amounts ==
                 astype_Int64([i \in 1..Len(df) |-> to_numeric(df[i].review_amount)])
         IN  IF amounts.raised THEN Raise
             ELSE Value([i \in 1..Len(df) |->
                      [brand |-> df[i].brand,
                       name |-> df[i].name,
                       old_price |-> price_to_numeric(df[i].old_price),
                       new_price |-> price_to_numeric(df[i].new_price),
                       review_rating_number |->
                           to_numeric(df[i].review_rating_number),
                       review_amount |-> amounts.value[i],
                       source |-> SOURCE_URL,
                       crawled_at |-> now]])

\* to_sql(..., if_exists="append"): the new rows after the old ones.
save_to_database_append(old, df) == old \o df

\* to_sql(..., if_exists="replace"): the table becomes the frame.
save_to_database(old, df) == df

\* ------------------------------------------------------------------ site

\* The pages a crawl can reach form a chain, since a page carries at most
\* one next-page link that the callbacks read (the first match): pages
\* 1..n, page p < n linking to p + 1, and page n linking to loopTo, an
\* earlier page, or to nothing (loopTo = 0).  Page p holds
\* (p + shape) % (MaxItems + 1) product containers.
Sites ==
    {[n |-> n, loopTo |-> l, shape |-> s] :
        n \in 1..MaxSite, l \in 0..MaxSite, s \in 0..MaxItems}

ValidSite(st) == st.loopTo <= st.n

\* response.css("li...--next a::attr(href)").get(): 0 stands for None.
NextLink(st, p) == IF p < st.n THEN p + 1 ELSE st.loopTo

ItemsOn(st, p) == (p + st.shape) % (MaxItems + 1)

\* The site renders its first page in layout A and the others in layout B.
LayoutOf(p) == IF p = 1 THEN "A" ELSE "B"

\* The text of each element of the i-th container of page p.
ElementText(field, p, i) ==
    CASE field = "brand" -> <<"b">>
      [] field = "name" -> <<DigitChar[p], DigitChar[i]>>
      [] field = "old_price" -> <<"9", "9">>
      [] field = "new_price" -> <<"8", DigitChar[i]>>
      [] field = "review_rating_number" -> <<"4", ".", "5">>
      [] field = "review_amount" -> <<"(", "1", DigitChar[i], ")">>

WellFormed(layout, p, i) ==
    [sel \in Selectors |->
        IF sel[1] = layout THEN ElementText(sel[2], p, i) ELSE None]

\* response.css("div.ui-search-result__wrapper"): the containers of page p
\* in document order, each with its position.
Products(st, p) ==
    IF ItemsOn(st, p) = 0 THEN <<>>
    ELSE [i \in 1..ItemsOn(st, p) |->
             [pos |-> i, elems |-> WellFormed(LayoutOf(p), p, i)]]

\* ----------------------------------------------------------------- state

VARIABLES
    run,          \* pipeline runs started so far; also the clock of a run
    phase,        \* "idle", "crawling" or "closed" (crawl over, feed written)
    site,         \* the site this run crawls
    max_pages,    \* MercadolivreSpider.max_pages
    page_count,   \* MercadolivreSpider.page_count
    scheduler,    \* the requests yielded and not yet downloaded
    requested,    \* the URLs requested in this run, in order (history)
    cb,           \* the running callback: its name, its page, its position
    parsed,       \* the pages handed to a callback, in order (history)
    emitted,      \* the items yielded in this run, in order
    failed,       \* a page of this run failed to download
    feed,         \* data.json: the items of the last crawl
    table,        \* the rows of table mercadolivre
    mainStatus,   \* how main() of this run ended: "none", "ok", "raised"
    written,      \* the last completed main(): its run, the names of the
                  \* items that run's crawl yielded, the rows the table
                  \* held before (history)
    fgen,         \* FieldSpec: the generation of the callback applied
    fpage,        \* FieldSpec: the product containers of the page
    fi,           \* FieldSpec: containers the callback has gone through
    fitems,       \* FieldSpec: the items yielded
    fraised,      \* FieldSpec: the callback raised
    frows,        \* FieldSpec: what preprocess_data returned
    fpc           \* FieldSpec: "parse", "preprocess" or "done"

cvars ==
    <<run, phase, site, max_pages, page_count, scheduler, requested, cb,
      parsed, emitted, failed, feed, table, mainStatus, written>>

fvars == <<fgen, fpage, fi, fitems, fraised, frows, fpc>>

vars == <<cvars, fvars>>

\* Line 38: the page budget of the class.
max_pages_default == 20

\* The budgets a run is configured with.
Budgets == (1..MaxBudget) \cup {max_pages_default}

NoCallback == [fn |-> "none", url |-> 0, i |-> 0]

CrawlInit ==
    /\ run = 0
    /\ phase = "idle"
    /\ site = [n |-> 1, loopTo |-> 0, shape |-> 0]
    /\ max_pages = max_pages_default
    /\ page_count = 1
    /\ scheduler = {}
    /\ requested = <<>>
    /\ cb = NoCallback
    /\ parsed = <<>>
    /\ emitted = <<>>
    /\ failed = FALSE
    /\ feed = <<>>
    /\ table = <<>>
    /\ mainStatus = "none"
    /\ written = [run |-> 0, names |-> <<>>, before |-> 0]

FieldIdle ==
    /\ fgen = "A"
    /\ fpage = <<>>
    /\ fi = 0
    /\ fitems = <<>>
    /\ fraised = FALSE
    /\ frows = Value(<<>>)
    /\ fpc = "done"

Init == CrawlInit /\ FieldIdle

\* ---------------------------------------------------------------- spider

\* A follow that asks `page_count <= max_pages`.
parse_follow_leq(count, max, next) ==
    IF count <= max /\ next # 0
    THEN [page_count |-> count + 1,
          requests |-> <<[url |-> next, callback |-> "parse_next_pages"]>>]
    ELSE [page_count |-> count, requests |-> <<>>]

\* A follow that hands the next page to parse again.
parse_follow_to_parse(count, max, next) ==
    IF count < max /\ next # 0
    THEN [page_count |-> count + 1,
          requests |-> <<[url |-> next, callback |-> "parse"]>>]
    ELSE [page_count |-> count, requests |-> <<>>]

\* A follow that yields the request without counting it.
parse_follow_uncounted(count, max, next) ==
    IF count < max /\ next # 0
    THEN [page_count |-> count,
          requests |-> <<[url |-> next, callback |-> "parse_next_pages"]>>]
    ELSE [page_count |-> count, requests |-> <<>>]

\* A follow that stops one page short of the budget.
parse_follow_short(count, max, next) ==
    IF count < max - 1 /\ next # 0
    THEN [page_count |-> count + 1,
          requests |-> <<[url |-> next, callback |-> "parse_next_pages"]>>]
    ELSE [page_count |-> count, requests |-> <<>>]

\* Lines 72-80, the end of parse: the counter and the requests it yields.
parse_follow(count, max, next) ==
    IF count < max /\ next # 0
    THEN [page_count |-> count + 1,
          requests |-> <<[url |-> next, callback |-> "parse_next_pages"]>>]
    ELSE [page_count |-> count, requests |-> <<>>]

\* A follow that never looks at the budget.
parse_next_pages_follow_unbounded(count, max, next) ==
    IF next # 0
    THEN [page_count |-> count + 1,
          requests |-> <<[url |-> next, callback |-> "parse_next_pages"]>>]
    ELSE [page_count |-> count, requests |-> <<>>]

\* A follow that stops one page short of the budget.
parse_next_pages_follow_short(count, max, next) ==
    IF count < max - 1 /\ next # 0
    THEN [page_count |-> count + 1,
          requests |-> <<[url |-> next, callback |-> "parse_next_pages"]>>]
    ELSE [page_count |-> count, requests |-> <<>>]

\* Lines 120-128, the end of parse_next_pages.
parse_next_pages_follow(count, max, next) ==
    IF count < max /\ next # 0
    THEN [page_count |-> count + 1,
          requests |-> <<[url |-> next, callback |-> "parse_next_pages"]>>]
    ELSE [page_count |-> count, requests |-> <<>>]

\* The engine's duplicate filter: a request for a URL this run has already
\* requested is dropped (response.follow leaves dont_filter at False).
IsDuplicate(req) == \E j \in 1..(req.seq - 1) : requested[j] = req.url

\* A run begins: the spider is constructed (page_count = 1) and the request
\* for start_urls[0] is scheduled with the default callback, parse.
StartCrawl ==
    /\ phase = "idle"
    /\ run < MaxRuns
    /\ \E st \in Sites, m \in Budgets :
        /\ ValidSite(st)
        /\ site' = st
        /\ max_pages' = m
    /\ run' = run + 1
    /\ phase' = "crawling"
    /\ page_count' = 1
    /\ scheduler' = {[url |-> 1, callback |-> "parse", seq |-> 1]}
    /\ requested' = <<1>>
    /\ cb' = NoCallback
    /\ parsed' = <<>>
    /\ emitted' = <<>>
    /\ failed' = FALSE
    /\ mainStatus' = "none"
    /\ UNCHANGED <<feed, table, written, fvars>>

\* The engine downloads a request and calls its callback with the response.
Download ==
    /\ phase = "crawling"
    /\ cb = NoCallback
    /\ \E req \in scheduler :
        /\ ~IsDuplicate(req)
        /\ scheduler' = scheduler \ {req}
        /\ cb' = [fn |-> req.callback, url |-> req.url, i |-> 0]
        /\ parsed' = Append(parsed, [url |-> req.url, callback |-> req.callback])
    /\ UNCHANGED <<run, phase, site, max_pages, page_count, requested, emitted,
                   failed, feed, table, mainStatus, written, fvars>>

\* The duplicate filter drops a request; no callback runs for it.
Filtered ==
    /\ phase = "crawling"
    /\ \E req \in scheduler :
        /\ IsDuplicate(req)
        /\ scheduler' = scheduler \ {req}
    /\ UNCHANGED <<run, phase, site, max_pages, page_count, requested, cb,
                   parsed, emitted, failed, feed, table, mainStatus, written, fvars>>

\* A download fails (network error, HTTP error status).  The requests carry
\* no errback, so the engine logs the failure, no callback runs for the
\* page, and the crawl goes on with what is left in the scheduler.
DownloadError ==
    /\ phase = "crawling"
    /\ \E req \in scheduler :
        /\ ~IsDuplicate(req)
        /\ scheduler' = scheduler \ {req}
    /\ failed' = TRUE
    /\ UNCHANGED <<run, phase, site, max_pages, page_count, requested, cb,
                   parsed, emitted, feed, table, mainStatus, written, fvars>>

\* One iteration of the loop over the product containers of a callback:
\* the item is yielded, or building it raises and the callback ends.
Yield(fn) ==
    /\ phase = "crawling"
    /\ cb.fn = fn
    /\ cb.i < Len(Products(site, cb.url))
    /\ LET product == ProductAt(Products(site, cb.url), cb.i + 1)
           item == Item(GenerationOf(fn), product.elems)
       IN  IF item.raised
           THEN /\ cb' = NoCallback
                /\ failed' = TRUE
                /\ UNCHANGED emitted
           ELSE /\ cb' = [cb EXCEPT !.i = cb.i + 1]
                /\ emitted' = Append(emitted,
                       [page |-> cb.url, idx |-> product.pos,
                        callback |-> fn, item |-> item.value])
                /\ UNCHANGED failed
    /\ UNCHANGED <<run, phase, site, max_pages, page_count, scheduler,
                   requested, parsed, feed, table, mainStatus, written, fvars>>

\* The end of a callback, after the loop: the counter is updated and the
\* requests it yields are scheduled.
Paginate(fn, follow) ==
    /\ phase = "crawling"
    /\ cb.fn = fn
    /\ cb.i = Len(Products(site, cb.url))
    /\ page_count' = follow.page_count
    /\ scheduler' = scheduler \cup
           {[url |-> follow.requests[k].url,
             callback |-> follow.requests[k].callback,
             seq |-> Len(requested) + k] : k \in 1..Len(follow.requests)}
    /\ requested' = requested \o
           [k \in 1..Len(follow.requests) |-> follow.requests[k].url]
    /\ cb' = NoCallback
    /\ UNCHANGED <<run, phase, site, max_pages, parsed, emitted, failed, feed,
                   table, mainStatus, written, fvars>>

\* Lines 52-69.
parse_yield == Yield("parse")

\* Lines 72-80.
parse_paginate ==
    Paginate("parse", parse_follow(page_count, max_pages, NextLink(site, cb.url)))

\* Lines 94-117.
parse_next_pages_yield == Yield("parse_next_pages")

\* Lines 120-128.
parse_next_pages_paginate ==
    Paginate("parse_next_pages",
             parse_next_pages_follow(page_count, max_pages, NextLink(site, cb.url)))

\* The crawl ends when nothing is scheduled and no callback runs; the feed
\* exporter (-o ../data/data.json) has written the items of the run.
CloseSpider ==
    /\ phase = "crawling"
    /\ scheduler = {}
    /\ cb = NoCallback
    /\ phase' = "closed"
    /\ feed' = IF emitted = <<>> THEN <<>>
               ELSE [i \in 1..Len(emitted) |-> emitted[i].item]
    /\ UNCHANGED <<run, site, max_pages, page_count, scheduler, requested, cb,
                   parsed, emitted, failed, table, mainStatus, written, fvars>>

\* ------------------------------------------------------------- processor

\* load_data: the frame of the records of data.json.
load_data(file) == file

\* main(): load_data, preprocess_data, save_to_database.  An exception of
\* preprocess_data ends main before the table is touched.
main ==
    /\ phase = "closed"
    /\ LET df == preprocess_data(load_data(feed), run)
       IN  IF df.raised
           THEN /\ mainStatus' = "raised"
                /\ UNCHANGED <<table, written>>
           ELSE /\ mainStatus' = "ok"
                /\ table' = save_to_database(table, df.value)
                /\ written' =
                       [run |-> run,
                        names |-> IF emitted = <<>> THEN <<>>
                                  ELSE [i \in 1..Len(emitted) |->
                                           emitted[i].item.name],
                        before |-> Len(table)]
    /\ phase' = "idle"
    /\ UNCHANGED <<run, site, max_pages, page_count, scheduler, requested, cb,
                   parsed, emitted, failed, feed, fvars>>

Next ==
    \/ StartCrawl
    \/ Download
    \/ Filtered
    \/ DownloadError
    \/ parse_yield
    \/ parse_paginate
    \/ parse_next_pages_yield
    \/ parse_next_pages_paginate
    \/ CloseSpider
    \/ main

Spec == Init /\ [][Next]_vars

\* One crawl, from the construction of the spider to its closing.
CrawlNext ==
    \/ (run = 0 /\ StartCrawl)
    \/ Download
    \/ Filtered
    \/ DownloadError
    \/ parse_yield
    \/ parse_paginate
    \/ parse_next_pages_yield
    \/ parse_next_pages_paginate
    \/ CloseSpider

\* The engine's scheduling: a scheduled request is eventually downloaded,
\* dropped or failed (downloads time out), a callback that was called runs
\* to its end, and the spider is closed once nothing is left to do.
CrawlFairness ==
    /\ WF_vars(Download \/ Filtered \/ DownloadError)
    /\ WF_vars(parse_yield)
    /\ WF_vars(parse_paginate)
    /\ WF_vars(parse_next_pages_yield)
    /\ WF_vars(parse_next_pages_paginate)
    /\ WF_vars(CloseSpider)

CrawlSpec == Init /\ [][CrawlNext]_vars /\ CrawlFairness

\* ---------------------------------------------------- one page of fields

\* A container of layout g with every element, and its variants.
Complete(g) ==
    [sel \in Selectors |->
        IF sel[1] = g
        THEN CASE sel[2] = "brand" -> <<"b">>
               [] sel[2] = "name" -> <<"n">>
               [] sel[2] = "old_price" -> <<"9", "9">>
               [] sel[2] = "new_price" -> <<"8", "0">>
               [] sel[2] = "review_rating_number" -> <<"4", ".", "5">>
               [] sel[2] = "review_amount" -> <<"(", "1", "2", "3", ")">>
        ELSE None]

\* The container without the elements of the fields in missing.
Without(g, missing) ==
    [sel \in Selectors |->
        IF sel[1] = g /\ sel[2] \in missing THEN None ELSE Complete(g)[sel]]

\* The container with the element of one field holding text t.
WithText(g, field, t) == [Complete(g) EXCEPT ![<<g, field>>] = t]

\* Review-count texts: "(123)" is in Complete; "()", "", "abc", "(1.5)",
\* "12", "(0)", "(12".
ReviewTexts ==
    {<<"(", ")">>, <<>>, <<"a", "b", "c">>, <<"(", "1", ".", "5", ")">>,
     <<"1", "2">>, <<"(", "0", ")">>, <<"(", "1", "2">>}

\* Price texts: "1.234,56", "12,5", "1.234", "abc".
PriceTexts ==
    {<<"1", ".", "2", "3", "4", ",", "5", "6">>, <<"1", "2", ",", "5">>,
     <<"1", ".", "2", "3", "4">>, <<"a", "b", "c">>}

\* Rating texts: "4,5", "abc", "5".
RatingTexts == {<<"4", ",", "5">>, <<"a", "b", "c">>, <<"5">>}

\* The containers a page of several products is drawn from: one element
\* missing, every element missing (a container of the other layout), or
\* one element with an unusual text.
Varied(g) ==
    {Complete(g), Without(g, Fields)}
        \cup {Without(g, {f}) : f \in Fields}
        \cup {WithText(g, "review_amount", t) : t \in ReviewTexts}
        \cup {WithText(g, "new_price", t) : t \in PriceTexts}
        \cup {WithText(g, "old_price", t) : t \in PriceTexts}
        \cup {WithText(g, "review_rating_number", t) : t \in RatingTexts}

\* The pages a callback is applied to: up to MaxBatch varied containers, or
\* one container with any set of elements missing.
FieldPages(g) ==
    UNION {[1..n -> Varied(g)] : n \in 0..MaxBatch}
        \cup {<<Without(g, missing)>> : missing \in SUBSET Fields}

FieldInit ==
    /\ CrawlInit
    /\ fgen \in Generations
    /\ fpage \in FieldPages(fgen)
    /\ fi = 0
    /\ fitems = <<>>
    /\ fraised = FALSE
    /\ frows = Value(<<>>)
    /\ fpc = "parse"

\* One iteration of the loop of the callback of generation g.
FieldYield(g) ==
    /\ fpc = "parse"
    /\ fgen = g
    /\ fi < Len(fpage)
    /\ LET item == Item(g, ProductAt(fpage, fi + 1))
       IN  IF item.raised
           THEN /\ fraised' = TRUE
                /\ fpc' = "preprocess"
                /\ UNCHANGED <<fi, fitems>>
           ELSE /\ fitems' = Append(fitems, item.value)
                /\ fi' = fi + 1
                /\ UNCHANGED <<fraised, fpc>>
    /\ UNCHANGED <<fgen, fpage, frows, cvars>>

\* Lines 55-69.
field_parse == FieldYield("A")

\* Lines 97-117.
field_parse_next_pages == FieldYield("B")

\* preprocess_data on the records the callback yielded.
field_preprocess_data ==
    /\ fpc = "preprocess" \/ (fpc = "parse" /\ fi = Len(fpage))
    /\ frows' = preprocess_data(load_data(fitems), 1)
    /\ fpc' = "done"
    /\ UNCHANGED <<fgen, fpage, fi, fitems, fraised, cvars>>

FieldNext ==
    \/ field_parse
    \/ field_parse_next_pages
    \/ field_preprocess_data

FieldSpec == FieldInit /\ [][FieldNext]_vars

\* ---------------------------------------------------------------- claims

\* The pages this run has handed to a callback.
PagesVisited == Len(parsed)

\* The crawl of this run is over.
CrawlOver == phase = "closed" \/ (phase = "idle" /\ run > 0)

\* The last page parsed, when there is one.
LastPage == parsed[Len(parsed)].url

\* The terminal states of the pagination controller.
Capped == PagesVisited = max_pages
Exhausted == NextLink(site, LastPage) = 0

\* C1: the number of pages handed to parse and parse_next_pages in a run
\* never exceeds max_pages, whatever the links of the site.
C1_PageCeiling == PagesVisited <= max_pages

\* A run that stopped at a budget of two or more pages although the last
\* page it parsed links to a further page.
C1_Witness ==
    /\ phase = "closed"
    /\ max_pages >= 2
    /\ PagesVisited = max_pages
    /\ NextLink(site, LastPage) # 0

\* C2: when a callback ends after its loop, it has issued a request exactly
\* if pages_visited < max_pages and the page has a next-page link; when it
\* has issued none, nothing is left to fetch and the run is Capped if
\* pages_visited = max_pages and Exhausted if the link is absent, with no
\* failure recorded.
C2_FollowRule ==
    [][(cb # NoCallback /\ cb' = NoCallback
            /\ cb.i = Len(Products(site, cb.url)))
        => LET issued == Len(requested') > Len(requested)
               link == NextLink(site, cb.url) # 0
           IN  /\ issued <=> (PagesVisited < max_pages /\ link)
               /\ ~issued =>
                    /\ scheduler' = {}
                    /\ ~failed'
                    /\ Capped' \/ Exhausted'
                    /\ (PagesVisited = max_pages) => Capped'
                    /\ ~link => Exhausted']_vars

\* A run closed without a failure at its budget, after following a link.
C2_Witness ==
    /\ phase = "closed"
    /\ ~failed
    /\ PagesVisited >= 2
    /\ Capped
    /\ ~Exhausted

EmittedOf(p) == {k \in 1..Len(emitted) : emitted[k].page = p}

Min(a, b) == IF a < b THEN a ELSE b

\* C4: on a linear chain of site.n pages with budget max_pages and no
\* failure, the finished crawl has requested and parsed exactly pages
\* 1..min(n, max_pages), in order, and yielded every item of these pages
\* and none of another page.
C4_LinearChain ==
    (CrawlOver /\ ~failed /\ site.loopTo = 0)
        => LET last == Min(site.n, max_pages)
           IN  /\ requested = [k \in 1..last |-> k]
               /\ Len(parsed) = last
               /\ \A k \in 1..last : parsed[k].url = k
               /\ \A p \in 1..site.n :
                      Cardinality(EmittedOf(p)) =
                          IF p <= last THEN ItemsOn(site, p) ELSE 0

\* The three-page chain crawled with a budget of two: pages 1 and 2 are
\* requested, page 3 is not, and page 2 has yielded items.
C4_Witness ==
    /\ phase = "closed"
    /\ ~failed
    /\ site.n = 3 /\ site.loopTo = 0
    /\ max_pages = 2
    /\ requested = <<1, 2>>
    /\ EmittedOf(2) # {}

\* C5: once a page of a run has failed, the table holds no row of that run.
C5_FailureWritesNothing ==
    failed => \A k \in 1..Len(table) : table[k].crawled_at # run

\* C6: the items of a run are yielded in page order and, within a page, in
\* the order of the containers in the page.
C6_Order ==
    \A i, j \in 1..Len(emitted) :
        i < j =>
            \/ emitted[i].page < emitted[j].page
            \/ /\ emitted[i].page = emitted[j].page
               /\ emitted[i].idx < emitted[j].idx

\* Two items of one page followed by an item of a later page.
C6_Witness ==
    \E i, j, k \in 1..Len(emitted) :
        /\ i < j /\ j < k
        /\ emitted[i].page = emitted[j].page
        /\ emitted[j].page < emitted[k].page

\* C7: the table holds exactly the rows of the last run whose main()
\* completed: one row per item of that run's crawl, in order, stamped with
\* that run, and no row of an earlier run.
C7_FullReplace ==
    /\ Len(table) = Len(written.names)
    /\ \A k \in 1..Len(table) :
           /\ table[k].name = written.names[k]
           /\ table[k].crawled_at = written.run
    /\ mainStatus = "ok" => (written.run = run /\ Len(table) = Len(emitted))

\* A second run that completed with fewer rows than the table held before.
C7_Witness ==
    /\ run = 2
    /\ mainStatus = "ok"
    /\ written.before > Len(table)
    /\ Len(table) > 0

\* C8: every container the callback has gone through has yielded one item
\* with the six keys, whichever generation read it: the text of the element
\* the selector finds, None where it finds none ("0" for review_amount),
\* and the callback never raises.
C8_OneItemPerContainer ==
    /\ ~fraised
    /\ Len(fitems) = fi
    /\ fpc # "parse" => fi = Len(fpage)
    /\ \A k \in 1..Len(fitems) :
           /\ DOMAIN fitems[k] = Fields
           /\ \A f \in Fields \ {"review_amount"} :
                  fitems[k][f] = fpage[k][<<fgen, f>>]
           /\ fitems[k]["review_amount"] # None
           /\ fpage[k][<<fgen, "review_amount">>] = None
                  => fitems[k]["review_amount"] = <<"0">>

\* A page of two containers gone through, one of them without any element
\* the callback's selectors match.
C8_Witness ==
    /\ fpc # "parse"
    /\ Len(fitems) = 2
    /\ \E k \in 1..2 : \A f \in Fields : fpage[k][<<fgen, f>>] = None

\* The numeric columns of a row hold values of their types.
ValidRow(r) ==
    /\ r.old_price.kind \in {"float", "NaN"}
    /\ r.new_price.kind \in {"float", "NaN"}
    /\ r.review_rating_number.kind \in {"float", "NaN"}
    /\ r.review_amount.kind \in {"int", "NA"}

\* C9: preprocess_data never raises, whatever the batch, and gives one row
\* per record with typed or null numeric columns.
C9_NeverRaises ==
    fpc = "done" =>
        /\ ~frows.raised
        /\ Len(frows.value) = Len(fitems)
        /\ \A k \in 1..Len(fitems) : ValidRow(frows.value[k])

\* The text left of t once its enclosing parentheses are stripped.
Unparenthesised(t) == Strip(t, {"(", ")"})

\* C10: through the callback and preprocess_data, review-count text "(123)"
\* gives 123; a missing element, an empty text and a text that is empty
\* without its parentheses give 0; a text that is no number gives null.
C10_ReviewCount ==
    (fpc = "done" /\ ~frows.raised) =>
        \A k \in 1..Len(fitems) :
            LET src == fpage[k][<<fgen, "review_amount">>]
                out == frows.value[k].review_amount
            IN  /\ src = <<"(", "1", "2", "3", ")">> => out = Int64(123)
                /\ (src = None \/ Unparenthesised(src) = <<>>) => out = Int64(0)
                /\ (src # None
                        /\ \E i \in 1..Len(Unparenthesised(src)) :
                               Unparenthesised(src)[i] \notin Digits \cup {"."})
                       => out = NA

\* A price text of the site's locale: digits grouped by periods, with at
\* most one comma before the decimals ("899", "1.234", "12,5", "1.234,56").
IsPriceText(t) ==
    /\ t # None
    /\ t # <<>>
    /\ t[1] \in Digits
    /\ t[Len(t)] \in Digits
    /\ \A i \in 1..Len(t) : t[i] \in Digits \cup {".", ","}
    /\ Cardinality({i \in 1..Len(t) : t[i] = ","}) <= 1
    /\ \A i, j \in 1..Len(t) : (t[i] = "," /\ t[j] = ".") => j < i

NotPeriod(c) == c # "."

\* The amount a price text stands for: the grouping periods dropped and the
\* comma read as the decimal point.
PriceValue(t) == to_numeric(Replace(SelectSeq(t, NotPeriod), ",", "."))

\* C11: every price text of the form digits,digits, with or without grouping
\* periods, is normalised to the amount it stands for: "1.234,56" gives
\* 1234.56, never null and never a value a thousand times smaller.
C11_PriceValue ==
    (fpc = "done" /\ ~frows.raised) =>
        \A k \in 1..Len(fitems) :
            /\ IsPriceText(fitems[k].old_price)
                   => frows.value[k].old_price = PriceValue(fitems[k].old_price)
            /\ IsPriceText(fitems[k].new_price)
                   => frows.value[k].new_price = PriceValue(fitems[k].new_price)

\* C13: during and after the crawl of a run at most one request is
\* outstanding, and none while a callback runs; the request for the page
\* after page k is issued only once page k has been parsed and all its items
\* yielded; and page_count equals the number of pages requested so far and
\* lies in 1..max_pages.
C13_OneAtATime ==
    run > 0 =>
        /\ Cardinality(scheduler) <= 1
        /\ cb # NoCallback => scheduler = {}
        /\ \A k \in 2..Len(requested) :
               /\ Len(parsed) >= k - 1
               /\ parsed[k - 1].url = requested[k - 1]
               /\ Cardinality(EmittedOf(requested[k - 1])) =
                      ItemsOn(site, requested[k - 1])
        /\ page_count = Len(requested)
        /\ page_count \in 1..max_pages

\* The request for a third page is outstanding after two pages that both
\* yielded items.
C13_Witness ==
    /\ phase = "crawling"
    /\ Len(requested) = 3
    /\ Cardinality(scheduler) = 1
    /\ EmittedOf(requested[1]) # {}
    /\ EmittedOf(requested[2]) # {}

\* The last request of the run asked for a URL requested before, which the
\* duplicate filter drops.
StoppedByFilter ==
    /\ Len(requested) > 1
    /\ \E j \in 1..(Len(requested) - 1) : requested[j] = requested[Len(requested)]

====
